---- MODULE Spec2Model ----
(***************************************************************************)
(* The insertion-ordered string map of shimMap(): a dictionary (data) over *)
(* a doubly linked list of entries anchored at a stub firstEntry, with     *)
(* iterators (MapIterator) that survive delete() and clear() through the   *)
(* skipNext / backward nextEntry protocol.                                 *)
(***************************************************************************)
EXTENDS Integers, Sequences, FiniteSets

\* ---------------------------------------------------------------- bounds
NumKeys    == 3   \* distinct string keys
NumValues  == 2   \* distinct values
NumIters   == 2   \* iterator objects alive at a time
MaxEntries == 4   \* entries ever allocated by set (not counting firstEntry)
MaxLogged  == 3   \* entries ever allocated in the runs that keep traversal logs

Keys    == 1..NumKeys
Values  == 1..NumValues
Iters   == 1..NumIters

\* The stub entry "this.firstEntry = {}" and JavaScript's undefined.
firstEntry == 0
undefined  == -1

Entries == 0..MaxEntries

\* The three projections handed to MapIterator by keys / values / entries.
Selectors == {"keys", "values", "entries"}

VARIABLES
  data,           \* this.data: key -> entry, undefined when the key is not in it
  size,           \* this.size
  lastEntry,      \* this.lastEntry
  nEntries,       \* number of entries allocated so far (entry ids 1..nEntries)
  entryKey,       \* MapEntry.key
  entryValue,     \* MapEntry.value
  nextEntry,      \* MapEntry.nextEntry
  previousEntry,  \* MapEntry.previousEntry
  skipNext,       \* MapEntry.skipNext
  currentEntry,   \* MapIterator.currentEntry of each iterator
  selector,       \* MapIterator.selector of each iterator ("none": not created)
  ret,            \* what the last call returned
  \* What happened to each iterator, recorded for stating the properties.
  yielded,        \* the entries it returned with done=false, in order
  owed,           \* live at its creation or inserted since, not removed unyielded
  gone,           \* entries removed by delete() while their key was unyielded
  stayed,         \* live at its creation and live ever since
  dones,          \* how often it returned done=true (counted up to 2)
  atClear,        \* the last clear() during its traversal, and advances since
  setLog,         \* the (key, value) of each set call, in SpecInsert
  script,         \* position in the prescribed calls of SpecScenarioC
  last,           \* the last call: its name, arguments and what get(key) was
  stored,         \* per key, the value set last, or that delete removed the key
  pc,             \* where a running forEach is: "idle", "loop", "action", "returned"
  native          \* the built-in Map given the same calls, in SpecRefine

mapVars  == <<data, size, lastEntry, nEntries, entryKey, entryValue,
              nextEntry, previousEntry, skipNext>>
iterVars == <<currentEntry, selector>>
histVars == <<yielded, owed, gone, stayed, dones, atClear>>
callVars == <<last, stored, pc>>
vars     == <<mapVars, iterVars, ret, histVars, setLog, script, callVars, native>>

\* ------------------------------------------------------------- helpers
\* has(key): "key in this.data".
has(k) == data[k] # undefined

\* get(key): "entry && entry.value".
get(k) == IF data[k] = undefined THEN undefined ELSE entryValue[data[k]]

\* The entries held in this.data.
Live == {data[k] : k \in {x \in Keys : has(x)}}

\* selector(key, value) of keys() / values() / entries().
Select(sel, k, v) ==
  CASE sel = "keys"    -> <<k>>
    [] sel = "values"  -> <<v>>
    [] OTHER           -> <<k, v>>

\* Faulty variant of Navigate: from the last entry of the list the iterator
\* goes on with the first.
NavigateWrap(cur) ==
  IF cur = undefined THEN undefined
  ELSE IF nextEntry[cur] = undefined THEN nextEntry[firstEntry]
  ELSE nextEntry[cur]

\* Faulty variant of Navigate: one hop, skipNext not consulted.
NavigateNoSkip(cur) ==
  IF cur = undefined THEN undefined ELSE nextEntry[cur]

\* The "Navigate to the next entry" loop of MapIterator.next.
RECURSIVE Navigate(_)
Navigate(cur) ==
  IF cur = undefined THEN undefined
  ELSE LET skip == skipNext[cur]
           nxt  == nextEntry[cur]
       IN  IF ~skip THEN nxt ELSE Navigate(nxt)

\* What a newly created iterator returns when it is advanced until done with
\* no other call in between: the entries of its done=false results.
RECURSIVE Traverse(_)
Traverse(cur) ==
  LET nxt == Navigate(cur)
  IN  IF nxt = undefined THEN <<>> ELSE <<nxt>> \o Traverse(nxt)

\* Faulty variant of ClearWalk: the removed entries are left as they were.
ClearWalkIdle(cur, st) == st

\* Faulty variant of ClearWalk: the removed entries lose their forward
\* reference instead of being directed to firstEntry.
RECURSIVE ClearWalkNull(_, _)
ClearWalkNull(cur, st) ==
  IF cur = undefined THEN st
  ELSE LET nxt == st.nextEntry[cur]
       IN  ClearWalkNull(nxt,
             [nextEntry     |-> [st.nextEntry EXCEPT ![cur] = undefined],
              previousEntry |-> [st.previousEntry EXCEPT ![cur] = undefined],
              skipNext      |-> [st.skipNext EXCEPT ![cur] = TRUE]])

\* Faulty variant of ClearWalk: the removed entries keep their previousEntry.
RECURSIVE ClearWalkKeepsPrevious(_, _)
ClearWalkKeepsPrevious(cur, st) ==
  IF cur = undefined THEN st
  ELSE LET nxt == st.nextEntry[cur]
       IN  ClearWalkKeepsPrevious(nxt,
             [nextEntry     |-> [st.nextEntry EXCEPT ![cur] = firstEntry],
              previousEntry |-> st.previousEntry,
              skipNext      |-> [st.skipNext EXCEPT ![cur] = TRUE]])

\* The loop of clear(): every entry reached from firstEntry.nextEntry gets
\* previousEntry = undefined, nextEntry = firstEntry, skipNext = true.
RECURSIVE ClearWalk(_, _)
ClearWalk(cur, st) ==
  IF cur = undefined THEN st
  ELSE LET nxt == st.nextEntry[cur]
       IN  ClearWalk(nxt,
             [nextEntry     |-> [st.nextEntry EXCEPT ![cur] = firstEntry],
              previousEntry |-> [st.previousEntry EXCEPT ![cur] = undefined],
              skipNext      |-> [st.skipNext EXCEPT ![cur] = TRUE]])

NoRet == [op |-> "none"]

\* "value: undefined as never" of a done result: no value, written as the
\* empty tuple so that it compares with the tuples a selector returns.
noValue == <<>>

\* In stored: the key was removed by delete() and not set since (undefined:
\* it was never set, or not since the last clear()).
wasDeleted == undefined - 1

\* No call has been made yet.
NoCall == [op |-> "none"]

\* The built-in Map as the ES6 Map it is declared to be: a list of the
\* entries in the order of their insertion, each with a mark for a removed
\* one, a position in the list for each iterator (undefined: exhausted or
\* not created), and what the last call returned.
NativeInit == [log |-> <<>>,
               pos |-> [c \in Iters |-> undefined],
               sel |-> [c \in Iters |-> "none"],
               ret |-> NoRet]

\* No clear() has happened during the traversal.
NoClear == [n |-> undefined, len |-> undefined, adv |-> 0]

\* ---------------------------------------------------------------- Init
\* The constructor: an empty dictionary, size 0, lastEntry = firstEntry = {}.
Init ==
  /\ data = [k \in Keys |-> undefined]
  /\ size = 0
  /\ lastEntry = firstEntry
  /\ nEntries = 0
  /\ entryKey = [e \in Entries |-> undefined]
  /\ entryValue = [e \in Entries |-> undefined]
  /\ nextEntry = [e \in Entries |-> undefined]
  /\ previousEntry = [e \in Entries |-> undefined]
  /\ skipNext = [e \in Entries |-> FALSE]
  /\ currentEntry = [c \in Iters |-> undefined]
  /\ selector = [c \in Iters |-> "none"]
  /\ ret = NoRet
  /\ yielded = [c \in Iters |-> <<>>]
  /\ owed = [c \in Iters |-> {}]
  /\ gone = [c \in Iters |-> {}]
  /\ stayed = [c \in Iters |-> {}]
  /\ dones = [c \in Iters |-> 0]
  /\ atClear = [c \in Iters |-> NoClear]
  /\ setLog = <<>>
  /\ script = 0
  /\ last = NoCall
  /\ stored = [k \in Keys |-> undefined]
  /\ pc = "idle"
  /\ native = NativeInit

\* ---------------------------------------------------------- operations
\* Faulty variant of set: this.lastEntry is not moved to the new entry.
setKeepLast(k, v) ==
  /\ IF ~has(k)
       THEN LET newEntry == nEntries + 1
                previousLastEntry == lastEntry
            IN  /\ nEntries < MaxEntries
                /\ size' = size + 1
                /\ nEntries' = newEntry
                /\ entryKey' = [entryKey EXCEPT ![newEntry] = k]
                /\ entryValue' = [entryValue EXCEPT ![newEntry] = v]
                /\ data' = [data EXCEPT ![k] = newEntry]
                /\ nextEntry' = [nextEntry EXCEPT ![previousLastEntry] = newEntry]
                /\ previousEntry' = [previousEntry EXCEPT ![newEntry] = previousLastEntry]
                /\ UNCHANGED <<lastEntry, skipNext>>
       ELSE /\ entryValue' = [entryValue EXCEPT ![data[k]] = v]
            /\ UNCHANGED <<data, size, lastEntry, nEntries, entryKey,
                           nextEntry, previousEntry, skipNext>>
  /\ ret' = NoRet
  /\ UNCHANGED iterVars

\* Faulty variant of set: the value of a present key is left as it was.
setKeepsValue(k, v) ==
  /\ IF ~has(k)
       THEN LET newEntry == nEntries + 1
                previousLastEntry == lastEntry
            IN  /\ nEntries < MaxEntries
                /\ size' = size + 1
                /\ nEntries' = newEntry
                /\ entryKey' = [entryKey EXCEPT ![newEntry] = k]
                /\ entryValue' = [entryValue EXCEPT ![newEntry] = v]
                /\ data' = [data EXCEPT ![k] = newEntry]
                /\ nextEntry' = [nextEntry EXCEPT ![previousLastEntry] = newEntry]
                /\ previousEntry' = [previousEntry EXCEPT ![newEntry] = previousLastEntry]
                /\ lastEntry' = newEntry
                /\ UNCHANGED skipNext
       ELSE UNCHANGED mapVars
  /\ ret' = NoRet
  /\ UNCHANGED iterVars

\* Faulty variant of set: this.size++ also when the key is present.
setCountsAll(k, v) ==
  /\ IF ~has(k)
       THEN LET newEntry == nEntries + 1
                previousLastEntry == lastEntry
            IN  /\ nEntries < MaxEntries
                /\ size' = size + 1
                /\ nEntries' = newEntry
                /\ entryKey' = [entryKey EXCEPT ![newEntry] = k]
                /\ entryValue' = [entryValue EXCEPT ![newEntry] = v]
                /\ data' = [data EXCEPT ![k] = newEntry]
                /\ nextEntry' = [nextEntry EXCEPT ![previousLastEntry] = newEntry]
                /\ previousEntry' = [previousEntry EXCEPT ![newEntry] = previousLastEntry]
                /\ lastEntry' = newEntry
                /\ UNCHANGED skipNext
       ELSE /\ entryValue' = [entryValue EXCEPT ![data[k]] = v]
            /\ size' = size + 1
            /\ UNCHANGED <<data, lastEntry, nEntries, entryKey,
                           nextEntry, previousEntry, skipNext>>
  /\ ret' = NoRet
  /\ UNCHANGED iterVars

\* Faulty variant of set: a present key is taken out of the list and entered
\* again at its end with the new value.
setReinserts(k, v) ==
  /\ IF ~has(k)
       THEN LET newEntry == nEntries + 1
                previousLastEntry == lastEntry
            IN  /\ nEntries < MaxEntries
                /\ size' = size + 1
                /\ nEntries' = newEntry
                /\ entryKey' = [entryKey EXCEPT ![newEntry] = k]
                /\ entryValue' = [entryValue EXCEPT ![newEntry] = v]
                /\ data' = [data EXCEPT ![k] = newEntry]
                /\ nextEntry' = [nextEntry EXCEPT ![previousLastEntry] = newEntry]
                /\ previousEntry' = [previousEntry EXCEPT ![newEntry] = previousLastEntry]
                /\ lastEntry' = newEntry
                /\ UNCHANGED skipNext
       ELSE LET entry == data[k]
                newEntry == nEntries + 1
                previousLastEntry == IF lastEntry = entry
                                       THEN previousEntry[entry] ELSE lastEntry
            IN  /\ nEntries < MaxEntries
                /\ nEntries' = newEntry
                /\ entryKey' = [entryKey EXCEPT ![newEntry] = k]
                /\ entryValue' = [entryValue EXCEPT ![newEntry] = v]
                /\ data' = [data EXCEPT ![k] = newEntry]
                /\ nextEntry' = [[[nextEntry EXCEPT ![previousEntry[entry]] = nextEntry[entry]]
                                     EXCEPT ![entry] = previousEntry[entry]]
                                     EXCEPT ![previousLastEntry] = newEntry]
                /\ previousEntry' = [[[previousEntry EXCEPT ![newEntry] = previousLastEntry]
                                         EXCEPT ![IF nextEntry[entry] # undefined
                                                    THEN nextEntry[entry] ELSE entry]
                                                  = previousEntry[entry]]
                                         EXCEPT ![entry] = undefined]
                /\ skipNext' = [skipNext EXCEPT ![entry] = TRUE]
                /\ lastEntry' = newEntry
                /\ UNCHANGED size
  /\ ret' = NoRet
  /\ UNCHANGED iterVars

\* set(key, value)
set(k, v) ==
  /\ IF ~has(k)
       THEN LET newEntry == nEntries + 1
                previousLastEntry == lastEntry
            IN  /\ nEntries < MaxEntries
                /\ size' = size + 1
                /\ nEntries' = newEntry
                /\ entryKey' = [entryKey EXCEPT ![newEntry] = k]
                /\ entryValue' = [entryValue EXCEPT ![newEntry] = v]
                /\ data' = [data EXCEPT ![k] = newEntry]
                /\ nextEntry' = [nextEntry EXCEPT ![previousLastEntry] = newEntry]
                /\ previousEntry' = [previousEntry EXCEPT ![newEntry] = previousLastEntry]
                /\ lastEntry' = newEntry
                /\ UNCHANGED skipNext
       ELSE /\ entryValue' = [entryValue EXCEPT ![data[k]] = v]
            /\ UNCHANGED <<data, size, lastEntry, nEntries, entryKey,
                           nextEntry, previousEntry, skipNext>>
  /\ ret' = NoRet
  /\ UNCHANGED iterVars

\* Faulty variant of UnlinkNext: the deleted entry keeps its forward reference.
UnlinkNextForward(entry) ==
  [nextEntry EXCEPT ![previousEntry[entry]] = nextEntry[entry]]

\* Faulty variant of UnlinkNext: the deleted entry's reference is dropped.
UnlinkNextNull(entry) ==
  [nextEntry EXCEPT ![previousEntry[entry]] = nextEntry[entry], ![entry] = undefined]

\* Faulty variant of UnlinkNext: the deleted entry refers to itself.
UnlinkNextSelf(entry) ==
  [nextEntry EXCEPT ![previousEntry[entry]] = nextEntry[entry], ![entry] = entry]

\* Faulty variant of UnlinkNext: the deleted entry refers to firstEntry.
UnlinkNextFirst(entry) ==
  [nextEntry EXCEPT ![previousEntry[entry]] = nextEntry[entry], ![entry] = firstEntry]

\* delete(): "previousEntry.nextEntry = entry.nextEntry" and, for iterators
\* that still reference the deleted entry, "entry.nextEntry = previousEntry".
UnlinkNext(entry) ==
  [nextEntry EXCEPT ![previousEntry[entry]] = nextEntry[entry],
                    ![entry] = previousEntry[entry]]

\* Faulty variant of UnlinkPrevious: the next entry keeps its back reference
\* to the deleted entry.
UnlinkPreviousStale(entry) == [previousEntry EXCEPT ![entry] = undefined]

\* Faulty variant of UnlinkPrevious: the deleted entry keeps its
\* previousEntry.
UnlinkPreviousKept(entry) ==
  IF nextEntry[entry] # undefined
    THEN [previousEntry EXCEPT ![nextEntry[entry]] = previousEntry[entry]]
    ELSE previousEntry

\* delete(): "entry.nextEntry.previousEntry = previousEntry" when there is a
\* next entry, and "entry.previousEntry = undefined".
UnlinkPrevious(entry) ==
  IF nextEntry[entry] # undefined
    THEN [previousEntry EXCEPT ![nextEntry[entry]] = previousEntry[entry],
                               ![entry] = undefined]
    ELSE [previousEntry EXCEPT ![entry] = undefined]

\* Faulty variant of MarkSkip: the flag is not set.
MarkSkipNot(entry) == skipNext

\* delete(): "entry.skipNext = true".
MarkSkip(entry) == [skipNext EXCEPT ![entry] = TRUE]

\* Faulty variant of delete: this.lastEntry is left on the deleted entry.
deleteKeepsLast(k) ==
  /\ IF has(k)
       THEN LET entry == data[k]
            IN  /\ size' = size - 1
                /\ data' = [data EXCEPT ![k] = undefined]
                /\ nextEntry' = UnlinkNext(entry)
                /\ previousEntry' = UnlinkPrevious(entry)
                /\ skipNext' = MarkSkip(entry)
                /\ ret' = [op |-> "delete", value |-> TRUE]
                /\ UNCHANGED <<lastEntry, nEntries, entryKey, entryValue>>
       ELSE /\ ret' = [op |-> "delete", value |-> FALSE]
            /\ UNCHANGED mapVars
  /\ UNCHANGED iterVars

\* Faulty variant of delete: this.size-- also when the key is not present.
deleteCountsAll(k) ==
  /\ IF has(k)
       THEN LET entry == data[k]
            IN  /\ size' = size - 1
                /\ data' = [data EXCEPT ![k] = undefined]
                /\ nextEntry' = UnlinkNext(entry)
                /\ previousEntry' = UnlinkPrevious(entry)
                /\ lastEntry' = IF lastEntry = entry THEN previousEntry[entry]
                                                     ELSE lastEntry
                /\ skipNext' = MarkSkip(entry)
                /\ ret' = [op |-> "delete", value |-> TRUE]
                /\ UNCHANGED <<nEntries, entryKey, entryValue>>
       ELSE /\ ret' = [op |-> "delete", value |-> FALSE]
            /\ size' = size - 1
            /\ UNCHANGED <<data, lastEntry, nEntries, entryKey, entryValue,
                           nextEntry, previousEntry, skipNext>>
  /\ UNCHANGED iterVars

\* delete(key)
delete(k) ==
  /\ IF has(k)
       THEN LET entry == data[k]
            IN  /\ size' = size - 1
                /\ data' = [data EXCEPT ![k] = undefined]
                /\ nextEntry' = UnlinkNext(entry)
                /\ previousEntry' = UnlinkPrevious(entry)
                /\ lastEntry' = IF lastEntry = entry THEN previousEntry[entry]
                                                     ELSE lastEntry
                /\ skipNext' = MarkSkip(entry)
                /\ ret' = [op |-> "delete", value |-> TRUE]
                /\ UNCHANGED <<nEntries, entryKey, entryValue>>
       ELSE /\ ret' = [op |-> "delete", value |-> FALSE]
            /\ UNCHANGED mapVars
  /\ UNCHANGED iterVars

\* Faulty variant of clear: this.lastEntry is left where it was.
clearKeepsLast ==
  LET st == ClearWalk(nextEntry[firstEntry],
                      [nextEntry |-> nextEntry, previousEntry |-> previousEntry,
                       skipNext |-> skipNext])
  IN  /\ data' = [k \in Keys |-> undefined]
      /\ size' = 0
      /\ nextEntry' = [st.nextEntry EXCEPT ![firstEntry] = undefined]
      /\ previousEntry' = st.previousEntry
      /\ skipNext' = st.skipNext
      /\ ret' = NoRet
      /\ UNCHANGED <<lastEntry, nEntries, entryKey, entryValue, iterVars>>

\* clear()
clear ==
  LET st == ClearWalk(nextEntry[firstEntry],
                      [nextEntry |-> nextEntry, previousEntry |-> previousEntry,
                       skipNext |-> skipNext])
  IN  /\ data' = [k \in Keys |-> undefined]
      /\ size' = 0
      /\ nextEntry' = [st.nextEntry EXCEPT ![firstEntry] = undefined]
      /\ previousEntry' = st.previousEntry
      /\ skipNext' = st.skipNext
      /\ lastEntry' = firstEntry
      /\ ret' = NoRet
      /\ UNCHANGED <<nEntries, entryKey, entryValue, iterVars>>

\* new MapIterator(currentEntry, selector), always called with this.firstEntry
MapIterator(c, sel) ==
  /\ currentEntry' = [currentEntry EXCEPT ![c] = firstEntry]
  /\ selector' = [selector EXCEPT ![c] = sel]
  /\ ret' = NoRet
  /\ UNCHANGED mapVars

keys(c)    == MapIterator(c, "keys")
values(c)  == MapIterator(c, "values")
entries(c) == MapIterator(c, "entries")

\* Faulty variant of next: the iterators share one currentEntry.
nextShared(c) ==
  /\ selector[c] # "none"
  /\ LET cur == Navigate(currentEntry[c])
     IN  /\ currentEntry' = [d \in Iters |-> cur]
         /\ ret' = IF cur # undefined
                     THEN [op |-> "next", it |-> c, done |-> FALSE,
                           value |-> Select(selector[c], entryKey[cur], entryValue[cur])]
                     ELSE [op |-> "next", it |-> c, done |-> TRUE, value |-> noValue]
  /\ UNCHANGED <<mapVars, selector>>

\* Faulty variant of next: at the end of the list the iterator keeps its
\* current entry instead of becoming undefined.
nextParked(c) ==
  /\ selector[c] # "none"
  /\ LET cur == Navigate(currentEntry[c])
     IN  /\ currentEntry' = [currentEntry EXCEPT ![c] = IF cur = undefined THEN @ ELSE cur]
         /\ ret' = IF cur # undefined
                     THEN [op |-> "next", it |-> c, done |-> FALSE,
                           value |-> Select(selector[c], entryKey[cur], entryValue[cur])]
                     ELSE [op |-> "next", it |-> c, done |-> TRUE, value |-> noValue]
  /\ UNCHANGED <<mapVars, selector>>

\* MapIterator.next()
next(c) ==
  /\ selector[c] # "none"
  /\ LET cur == Navigate(currentEntry[c])
     IN  /\ currentEntry' = [currentEntry EXCEPT ![c] = cur]
         /\ ret' = IF cur # undefined
                     THEN [op |-> "next", it |-> c, done |-> FALSE,
                           value |-> Select(selector[c], entryKey[cur], entryValue[cur])]
                     ELSE [op |-> "next", it |-> c, done |-> TRUE, value |-> noValue]
  /\ UNCHANGED <<mapVars, selector>>

\* forEach(action), "const iterator = this.entries()": c is the iterator.
forEach(c) ==
  /\ pc \in {"idle", "returned"}
  /\ entries(c)
  /\ pc' = "loop"

\* forEach, "iterator.next(); if (done) break;": the loop is left, or the
\* action is called with the entry returned.
forEachNext(c) ==
  /\ pc = "loop"
  /\ next(c)
  /\ pc' = IF ret'.done THEN "returned" ELSE "action"

\* forEach, "action(entry[1], entry[0])" returns. What the action does to the
\* map are calls of set and delete made while pc = "action".
action ==
  /\ pc = "action"
  /\ pc' = "loop"
  /\ UNCHANGED <<mapVars, iterVars, ret>>

\* Faulty variant of Get: the value of the entry allocated last is returned.
GetNewest(k) ==
  /\ ret' = [op |-> "get", value |-> IF has(k) THEN entryValue[nEntries] ELSE undefined]
  /\ UNCHANGED <<mapVars, iterVars>>

\* A call of get(key): the result, nothing written.
Get(k) ==
  /\ ret' = [op |-> "get", value |-> get(k)]
  /\ UNCHANGED <<mapVars, iterVars>>

\* A call of has(key): the result, nothing written.
Has(k) ==
  /\ ret' = [op |-> "has", value |-> has(k)]
  /\ UNCHANGED <<mapVars, iterVars>>

\* A read of the public field size.
Size ==
  /\ ret' = [op |-> "size", value |-> size]
  /\ UNCHANGED <<mapVars, iterVars>>

\* ---------------------------------------------------- the map in use
\* Any caller: every operation on every key and value, an iterator created
\* and advanced at any time. Nothing is recorded.
Idle == UNCHANGED <<histVars, setLog, script, callVars, native>>

\* The iterator of the single-iterator runs.
Solo == {1}

Set(k, v)    == set(k, v) /\ Idle
Delete(k)    == delete(k) /\ Idle
Clear        == clear /\ Idle
KeysIt(c)    == keys(c) /\ Idle
ValuesIt(c)  == values(c) /\ Idle
EntriesIt(c) == entries(c) /\ Idle
IterNext(c)  == next(c) /\ Idle

Next ==
  \/ \E k \in Keys, v \in Values : Set(k, v)
  \/ \E k \in Keys : Delete(k)
  \/ Clear
  \/ \E c \in Solo : KeysIt(c)
  \/ \E c \in Solo : ValuesIt(c)
  \/ \E c \in Solo : EntriesIt(c)
  \/ \E c \in Solo : IterNext(c)

Spec == Init /\ [][Next]_vars

\* ------------------------------------------- the map with traversal logs
\* The same operations, with what happens to each iterator recorded.
SeqSet(q) == {q[i] : i \in 1..Len(q)}

Running(c) == selector[c] # "none" /\ dones[c] = 0

Min2(n) == IF n < 2 THEN n ELSE 2

\* A set call: an inserted entry is owed by every running iterator.
TrackSet(k, v) ==
  /\ set(k, v)
  /\ owed' = [c \in Iters |->
                IF Running(c) /\ ~has(k) THEN owed[c] \cup {nEntries + 1} ELSE owed[c]]
  /\ UNCHANGED <<yielded, gone, stayed, dones, atClear>>

\* A delete call: the removed entry is no longer owed by the running
\* iterators that have not yielded it.
TrackDelete(k) ==
  /\ delete(k)
  /\ LET removed == IF has(k) THEN {data[k]} ELSE {}
     IN  /\ owed' = [c \in Iters |->
                       IF Running(c) THEN owed[c] \ (removed \ SeqSet(yielded[c]))
                                     ELSE owed[c]]
         /\ gone' = [c \in Iters |->
                       IF Running(c) /\ \A e \in SeqSet(yielded[c]) : entryKey[e] # k
                         THEN gone[c] \cup removed ELSE gone[c]]
         /\ stayed' = [c \in Iters |->
                         IF Running(c) THEN stayed[c] \ removed ELSE stayed[c]]
  /\ UNCHANGED <<yielded, dones, atClear>>

\* A clear call removes every live entry.
TrackClear ==
  /\ clear
  /\ owed' = [c \in Iters |->
                IF Running(c) THEN owed[c] \ (Live \ SeqSet(yielded[c])) ELSE owed[c]]
  /\ stayed' = [c \in Iters |-> IF Running(c) THEN {} ELSE stayed[c]]
  /\ atClear' = [c \in Iters |->
                   IF Running(c)
                     THEN [n |-> nEntries, len |-> Len(yielded[c]), adv |-> 0]
                     ELSE atClear[c]]
  /\ UNCHANGED <<yielded, gone, dones>>

\* A new iterator starts with an empty record.
TrackCreate(c) ==
  /\ yielded' = [yielded EXCEPT ![c] = <<>>]
  /\ owed' = [owed EXCEPT ![c] = Live]
  /\ gone' = [gone EXCEPT ![c] = {}]
  /\ stayed' = [stayed EXCEPT ![c] = Live]
  /\ dones' = [dones EXCEPT ![c] = 0]
  /\ atClear' = [atClear EXCEPT ![c] = NoClear]

TrackKeys(c)    == keys(c) /\ TrackCreate(c)
TrackValues(c)  == values(c) /\ TrackCreate(c)
TrackEntries(c) == entries(c) /\ TrackCreate(c)

\* An advance: the entry returned, or one more done.
TrackNext(c) ==
  /\ next(c)
  /\ yielded' = IF ret'.done THEN yielded
                ELSE [yielded EXCEPT ![c] = Append(@, currentEntry'[c])]
  /\ dones' = IF ret'.done THEN [dones EXCEPT ![c] = Min2(@ + 1)] ELSE dones
  /\ atClear' = IF atClear[c].n # undefined
                  THEN [atClear EXCEPT ![c].adv = Min2(@ + 1)]
                  ELSE atClear
  /\ UNCHANGED <<owed, gone, stayed>>

\* The traversal properties do not read the values: one value is stored.
LogValue == CHOOSE v \in Values : \A w \in Values : v <= w

Unscripted == UNCHANGED <<setLog, script, callVars, native>>

LogSet(k)     == nEntries < MaxLogged /\ TrackSet(k, LogValue) /\ Unscripted
LogDelete(k)  == TrackDelete(k) /\ Unscripted
LogClear      == TrackClear /\ Unscripted
LogKeys(c)    == TrackKeys(c) /\ Unscripted
LogValues(c)  == TrackValues(c) /\ Unscripted
LogEntries(c) == TrackEntries(c) /\ Unscripted
LogNext(c)    == TrackNext(c) /\ Unscripted

LogStep ==
  \/ \E k \in Keys : LogSet(k)
  \/ \E k \in Keys : LogDelete(k)
  \/ LogClear
  \/ \E c \in Solo : LogKeys(c)
  \/ \E c \in Solo : LogValues(c)
  \/ \E c \in Solo : LogEntries(c)
  \/ \E c \in Solo : LogNext(c)

SpecLog == Init /\ [][LogStep]_vars

\* ------------------------------------------------ insertions only
\* A new map that only receives set calls on keys it does not hold, each call
\* noted in setLog, and is traversed in between and afterwards.
InsSet(k, v) ==
  /\ ~has(k)
  /\ TrackSet(k, v)
  /\ setLog' = Append(setLog, <<k, v>>)
  /\ UNCHANGED <<script, callVars, native>>

InsStep ==
  \/ \E k \in Keys, v \in Values : InsSet(k, v)
  \/ \E c \in Solo : LogKeys(c)
  \/ \E c \in Solo : LogValues(c)
  \/ \E c \in Solo : LogEntries(c)
  \/ \E c \in Solo : LogNext(c)

SpecInsert == Init /\ [][InsStep]_vars

\* -------------------------------------------------------- Scenario C
\* set(a); set(b); create an iterator; advance once; clear(); from then on
\* set calls and advances in any order. The values are not read.
ScSetA(k)    == script = 0 /\ TrackSet(k, LogValue) /\ script' = 1 /\ UNCHANGED <<setLog, callVars, native>>
ScSetB(k)    == script = 1 /\ ~has(k) /\ TrackSet(k, LogValue) /\ script' = 2
                /\ UNCHANGED <<setLog, callVars, native>>
ScKeys(c)    == script = 2 /\ TrackKeys(c) /\ script' = 3 /\ UNCHANGED <<setLog, callVars, native>>
ScValues(c)  == script = 2 /\ TrackValues(c) /\ script' = 3 /\ UNCHANGED <<setLog, callVars, native>>
ScEntries(c) == script = 2 /\ TrackEntries(c) /\ script' = 3 /\ UNCHANGED <<setLog, callVars, native>>
ScFirst(c)   == script = 3 /\ TrackNext(c) /\ script' = 4 /\ UNCHANGED <<setLog, callVars, native>>
ScClear      == script = 4 /\ TrackClear /\ script' = 5 /\ UNCHANGED <<setLog, callVars, native>>
ScSet(k)     == script = 5 /\ TrackSet(k, LogValue) /\ Unscripted
ScNext(c)    == script = 5 /\ TrackNext(c) /\ Unscripted

ScStep ==
  \/ \E k \in Keys : ScSetA(k)
  \/ \E k \in Keys : ScSetB(k)
  \/ \E c \in Solo : ScKeys(c)
  \/ \E c \in Solo : ScValues(c)
  \/ \E c \in Solo : ScEntries(c)
  \/ \E c \in Solo : ScFirst(c)
  \/ ScClear
  \/ \E k \in Keys : ScSet(k)
  \/ \E c \in Solo : ScNext(c)

SpecScenarioC == Init /\ [][ScStep]_vars

\* ------------------------------------------- the map, call by call
\* Every operation, one iterator, with the last call and the value stored
\* last per key noted; at most MaxLogged entries are allocated.
\* Scenario A: set(a, .); set(b, .); set(a, .); delete(b); set(c, .) on a new
\* map. ScenarioA(n, call): having made the first n of these calls and no
\* other, the map is now given the next one.
ScenarioA(n, call) ==
  CASE n = 0 -> call.op = "set"
    [] n = 1 -> call.op = "set" /\ call.was = undefined
    [] n = 2 -> call.op = "set" /\ call.k = entryKey[1]
    [] n = 3 -> call.op = "delete" /\ call.k = entryKey[2]
    [] n = 4 -> call.op = "set" /\ call.was = undefined /\ call.k # entryKey[2]
    [] OTHER -> FALSE

\* script counts the calls of Scenario A made so far, and is undefined once
\* the calls made are not a beginning of Scenario A.
Uncalled ==
  /\ script' = IF script # undefined /\ ScenarioA(script, last')
                 THEN script + 1 ELSE undefined
  /\ UNCHANGED <<histVars, setLog, pc, native>>

StepSet(k, v) ==
  /\ has(k) \/ nEntries < MaxLogged
  /\ set(k, v)
  /\ last' = [op |-> "set", k |-> k, v |-> v, was |-> get(k),
               again |-> stored[k] = wasDeleted]
  /\ stored' = [stored EXCEPT ![k] = v]
  /\ Uncalled

StepDelete(k) ==
  /\ delete(k)
  /\ last' = [op |-> "delete", k |-> k, was |-> get(k)]
  /\ stored' = IF has(k) THEN [stored EXCEPT ![k] = wasDeleted] ELSE stored
  /\ Uncalled

StepClear ==
  /\ clear
  /\ last' = [op |-> "clear", was |-> size]
  /\ stored' = [k \in Keys |-> undefined]
  /\ Uncalled

StepKeys(c) ==
  keys(c) /\ last' = [op |-> "keys", c |-> c] /\ UNCHANGED stored /\ Uncalled
StepValues(c) ==
  values(c) /\ last' = [op |-> "values", c |-> c] /\ UNCHANGED stored /\ Uncalled
StepEntries(c) ==
  entries(c) /\ last' = [op |-> "entries", c |-> c] /\ UNCHANGED stored /\ Uncalled
StepNext(c) ==
  next(c) /\ last' = [op |-> "next", c |-> c] /\ UNCHANGED stored /\ Uncalled
StepGet(k) ==
  Get(k) /\ last' = [op |-> "get", k |-> k] /\ UNCHANGED stored /\ Uncalled
StepHas(k) ==
  Has(k) /\ last' = [op |-> "has", k |-> k] /\ UNCHANGED stored /\ Uncalled

Step ==
  \/ \E k \in Keys, v \in Values : StepSet(k, v)
  \/ \E k \in Keys : StepDelete(k)
  \/ StepClear
  \/ \E c \in Solo : StepKeys(c)
  \/ \E c \in Solo : StepValues(c)
  \/ \E c \in Solo : StepEntries(c)
  \/ \E c \in Solo : StepNext(c)
  \/ \E k \in Keys : StepGet(k)
  \/ \E k \in Keys : StepHas(k)

SpecStep == Init /\ [][Step]_vars

\* ------------------------------------------------------------ forEach
\* The iterator of forEach.
iterator == NumIters

Unlisted == UNCHANGED <<setLog, script, last, stored, native>>

\* Calls by the owner of the map, between calls of forEach.
OwnSet(k, v) ==
  /\ pc \in {"idle", "returned"}
  /\ has(k) \/ nEntries < MaxLogged
  /\ TrackSet(k, v)
  /\ UNCHANGED pc /\ Unlisted
OwnDelete(k) == pc \in {"idle", "returned"} /\ TrackDelete(k) /\ UNCHANGED pc /\ Unlisted
OwnClear     == pc \in {"idle", "returned"} /\ TrackClear /\ UNCHANGED pc /\ Unlisted

\* forEach itself.
EachStart  == forEach(iterator) /\ TrackCreate(iterator) /\ Unlisted
EachNext   == forEachNext(iterator) /\ TrackNext(iterator) /\ Unlisted
EachReturn == action /\ UNCHANGED histVars /\ Unlisted

\* Calls made by the action on the map it is traversing.
ActSet(k, v) ==
  /\ pc = "action"
  /\ has(k) \/ nEntries < MaxLogged
  /\ TrackSet(k, v)
  /\ UNCHANGED pc /\ Unlisted
ActDelete(k) == pc = "action" /\ TrackDelete(k) /\ UNCHANGED pc /\ Unlisted

EachStep ==
  \/ \E k \in Keys, v \in Values : OwnSet(k, v)
  \/ \E k \in Keys : OwnDelete(k)
  \/ OwnClear
  \/ EachStart
  \/ EachNext
  \/ EachReturn
  \/ \E k \in Keys, v \in Values : ActSet(k, v)
  \/ \E k \in Keys : ActDelete(k)

SpecForEach == Init /\ [][EachStep]_vars

\* ------------------------------------------- traversals run to their end
\* One iterator, created once and advanced again and again, and one call of
\* forEach whose action returns, while set (at most MaxLogged insertions),
\* delete and clear are called in between, by the action as well.
Unwatched == UNCHANGED <<histVars, setLog, script, last, stored, native>>

RunSet(k, v) ==
  /\ pc # "loop"
  /\ has(k) \/ nEntries < MaxLogged
  /\ set(k, v)
  /\ UNCHANGED pc /\ Unwatched
RunDelete(k)  == pc # "loop" /\ delete(k) /\ UNCHANGED pc /\ Unwatched
RunClear      == pc # "loop" /\ clear /\ UNCHANGED pc /\ Unwatched
RunKeys(c)    ==
  pc # "loop" /\ selector[c] = "none" /\ keys(c) /\ UNCHANGED pc /\ Unwatched
RunValues(c)  ==
  pc # "loop" /\ selector[c] = "none" /\ values(c) /\ UNCHANGED pc /\ Unwatched
RunNext(c)    == pc # "loop" /\ next(c) /\ UNCHANGED pc /\ Unwatched
RunForEach    == pc = "idle" /\ forEach(iterator) /\ Unwatched
RunEachNext   == forEachNext(iterator) /\ Unwatched
RunEachReturn == action /\ Unwatched

RunStep ==
  \/ \E k \in Keys, v \in Values : RunSet(k, v)
  \/ \E k \in Keys : RunDelete(k)
  \/ RunClear
  \/ \E c \in Solo : RunKeys(c)
  \/ \E c \in Solo : RunValues(c)
  \/ \E c \in Solo : RunNext(c)
  \/ RunForEach
  \/ RunEachNext
  \/ RunEachReturn

\* The iterator is advanced as long as that moves it; forEach goes on with
\* its loop, and its action returns.
SpecRun ==
  /\ Init /\ [][RunStep]_vars
  /\ \A c \in Solo : WF_iterVars(RunNext(c))
  /\ WF_pc(RunEachNext)
  /\ WF_pc(RunEachReturn)

\* ------------------------------------------------------ two iterators
\* The calls that write, with one stored value, and two iterators created
\* and advanced in any order.
PairSet(k) == StepSet(k, LogValue)

PairStep ==
  \/ \E k \in Keys : PairSet(k)
  \/ \E k \in Keys : StepDelete(k)
  \/ StepClear
  \/ \E c \in Iters : StepKeys(c)
  \/ \E c \in Iters : StepValues(c)
  \/ \E c \in Iters : StepEntries(c)
  \/ \E c \in Iters : StepNext(c)

SpecPair == Init /\ [][PairStep]_vars

\* ------------------------------------------- beside the built-in Map
\* MapCtr is the built-in Map when there is one with "entries", and shimMap()
\* otherwise. The built-in Map keeps its entries in insertion order; a
\* removed entry is marked, and an iterator goes on from its position to the
\* next entry that is not marked.

\* The place in the list of the entry of key k that is not marked, 0: none.
NativeIndex(n, k) ==
  LET found == {i \in 1..Len(n.log) : n.log[i].key = k /\ ~n.log[i].dead}
  IN  IF found = {} THEN 0 ELSE CHOOSE i \in found : TRUE

NativeSet(n, k, v) ==
  LET i == NativeIndex(n, k)
  IN  [n EXCEPT !.log = IF i = 0
                          THEN Append(@, [key |-> k, value |-> v, dead |-> FALSE])
                          ELSE [@ EXCEPT ![i].value = v],
                !.ret = NoRet]

NativeDelete(n, k) ==
  LET i == NativeIndex(n, k)
  IN  [n EXCEPT !.log = IF i = 0 THEN @ ELSE [@ EXCEPT ![i].dead = TRUE],
                !.ret = [op |-> "delete", value |-> i # 0]]

NativeClear(n) ==
  [n EXCEPT !.log = [i \in 1..Len(@) |-> [@[i] EXCEPT !.dead = TRUE]],
            !.ret = NoRet]

NativeGet(n, k) ==
  LET i == NativeIndex(n, k)
  IN  [n EXCEPT !.ret = [op |-> "get",
                         value |-> IF i = 0 THEN undefined ELSE n.log[i].value]]

NativeHas(n, k) ==
  [n EXCEPT !.ret = [op |-> "has", value |-> NativeIndex(n, k) # 0]]

NativeCount(n) == Cardinality({i \in 1..Len(n.log) : ~n.log[i].dead})

NativeSize(n) == [n EXCEPT !.ret = [op |-> "size", value |-> NativeCount(n)]]

NativeIterator(n, c, sel) ==
  [n EXCEPT !.pos[c] = 0, !.sel[c] = sel, !.ret = NoRet]

\* The iterator goes to the first entry after its position that is not
\* marked; when there is none it is exhausted, and stays so.
NativeNext(n, c) ==
  LET ahead == IF n.pos[c] = undefined THEN {}
               ELSE {i \in (n.pos[c] + 1)..Len(n.log) : ~n.log[i].dead}
  IN  IF ahead = {}
        THEN [n EXCEPT !.pos[c] = undefined,
                       !.ret = [op |-> "next", it |-> c, done |-> TRUE,
                                value |-> noValue]]
        ELSE LET i == CHOOSE x \in ahead : \A y \in ahead : x <= y
             IN  [n EXCEPT !.pos[c] = i,
                           !.ret = [op |-> "next", it |-> c, done |-> FALSE,
                                    value |-> Select(n.sel[c], n.log[i].key,
                                                     n.log[i].value)]]

\* The same calls go to the map of shimMap() and to the built-in Map.
Unrefined == UNCHANGED <<histVars, setLog, script, last, stored, pc>>

RefSet(k, v) ==
  /\ has(k) \/ nEntries < MaxLogged
  /\ set(k, v) /\ native' = NativeSet(native, k, v) /\ Unrefined
RefDelete(k)  == delete(k) /\ native' = NativeDelete(native, k) /\ Unrefined
RefClear      == clear /\ native' = NativeClear(native) /\ Unrefined
RefGet(k)     == Get(k) /\ native' = NativeGet(native, k) /\ Unrefined
RefHas(k)     == Has(k) /\ native' = NativeHas(native, k) /\ Unrefined
RefSize       == Size /\ native' = NativeSize(native) /\ Unrefined
RefKeys(c)    == keys(c) /\ native' = NativeIterator(native, c, "keys") /\ Unrefined
RefValues(c)  == values(c) /\ native' = NativeIterator(native, c, "values") /\ Unrefined
RefEntries(c) == entries(c) /\ native' = NativeIterator(native, c, "entries") /\ Unrefined
RefNext(c)    == next(c) /\ native' = NativeNext(native, c) /\ Unrefined

\* One iterator is made by keys() or values(), the other by entries().
RefStep ==
  \/ \E k \in Keys, v \in Values : RefSet(k, v)
  \/ \E k \in Keys : RefDelete(k)
  \/ RefClear
  \/ \E k \in Keys : RefGet(k)
  \/ \E k \in Keys : RefHas(k)
  \/ RefSize
  \/ \E c \in Solo : RefKeys(c)
  \/ \E c \in Solo : RefValues(c)
  \/ \E c \in Iters \ Solo : RefEntries(c)
  \/ \E c \in Iters : RefNext(c)

SpecRefine == Init /\ [][RefStep]_vars

\* ============================================================ properties
Created(c) == selector[c] # "none"

\* Entry ids are given out in insertion order.
Increasing(q) == \A i, j \in 1..Len(q) : i < j => q[i] < q[j]

\* The live entries inserted after entry r, and the first of them.
Above(r) == {e \in Live : e > r}
First(S) == CHOOSE m \in S : \A x \in S : m <= x

\* The keys an iterator has returned.
YieldedKeys(c) == {entryKey[e] : e \in SeqSet(yielded[c])}

\* The last call was an advance of iterator c.
Advanced(c) == ret.op = "next" /\ ret.it = c

\* The entry iterator c rested on before the advance it has just made
\* (firstEntry when it had returned nothing yet).
RestedOn(c) ==
  LET n == IF ret.done THEN Len(yielded[c]) ELSE Len(yielded[c]) - 1
  IN  IF n = 0 THEN firstEntry ELSE yielded[c][n]

\* ------------------------------------------------------------------ C1
\* The order and completeness half of C1: an iterator returns entries in
\* insertion order, each once, and when it returns done it has returned
\* exactly the entries that were live at its creation or inserted since and
\* were not removed before it reached them.
C1_OrderAndCompleteness ==
  \A c \in Iters : Created(c) =>
    /\ Increasing(yielded[c])
    /\ SeqSet(yielded[c]) \subseteq owed[c]
    /\ dones[c] >= 1 => SeqSet(yielded[c]) = owed[c]

\* C1 as claimed: an iterator created before delete(k), k not yet yielded,
\* never yields the key k afterwards, yields the other live keys once each in
\* insertion order, and yields the keys inserted during the traversal. Fails:
\* set(k) after the delete inserts k again and the iterator yields it.
C1_Original ==
  /\ C1_OrderAndCompleteness
  /\ \A c \in Iters : \A e \in gone[c] : entryKey[e] \notin YieldedKeys(c)

\* C1 as amended: the deleted entry is never yielded; the key k is yielded
\* after the delete only through an entry that a later set(k) inserted, at its
\* new position; the rest as claimed.
C1_Amended ==
  /\ C1_OrderAndCompleteness
  /\ \A c \in Iters :
       /\ gone[c] \cap SeqSet(yielded[c]) = {}
       /\ \A e \in gone[c] : \A y \in SeqSet(yielded[c]) :
            entryKey[y] = entryKey[e] => y > e /\ y \in owed[c]

\* Scenario B's shape, finished: an entry was deleted before the iterator
\* reached it, the iterator has yielded an older and a newer entry and is done.
C1_Witness ==
  \E c \in Iters :
    /\ dones[c] = 1
    /\ \E e \in gone[c] : \E i, j \in 1..Len(yielded[c]) :
         yielded[c][i] < e /\ e < yielded[c][j]

\* ------------------------------------------------------------------ C2
\* C2: when the entry an iterator rests on has been removed (and any entries
\* before it as well), its next advance returns the first live entry inserted
\* after the resting entry, or done when there is none; never an older entry.
C2_SkipsToLiveSuccessor ==
  \A c \in Iters :
    (Advanced(c) /\ dones[c] = (IF ret.done THEN 1 ELSE 0)
       /\ RestedOn(c) # firstEntry /\ RestedOn(c) \notin Live) =>
      /\ ret.done <=> Above(RestedOn(c)) = {}
      /\ ~ret.done => currentEntry[c] = First(Above(RestedOn(c)))

\* The iterator rested on a deleted entry whose predecessor was deleted after
\* it (a chain of two redirects) and has now yielded a live entry.
C2_Witness ==
  \E c \in Iters :
    /\ Advanced(c) /\ ~ret.done
    /\ RestedOn(c) # firstEntry
    /\ skipNext[RestedOn(c)]
    /\ nextEntry[RestedOn(c)] # firstEntry
    /\ skipNext[nextEntry[RestedOn(c)]]

\* ------------------------------------------------------------------ C3
\* C3: every advance that returns done=false returns an entry that is in the
\* map at that moment: has(key) holds, and the result is the selector applied
\* to that key and get(key).
C3_YieldsLive ==
  \A c \in Iters :
    (Advanced(c) /\ ~ret.done) =>
      LET e == currentEntry[c]
          k == entryKey[e]
      IN  /\ e \in Live
          /\ k \in Keys
          /\ has(k)
          /\ data[k] = e
          /\ ret.value = Select(selector[c], k, get(k))

\* An entries() iterator yields a pair holding the second value while an
\* older entry of the map has been removed.
C3_Witness ==
  \E c \in Iters :
    /\ Advanced(c) /\ ~ret.done
    /\ selector[c] = "entries"
    /\ \E t \in 1..nEntries : skipNext[t] /\ t < currentEntry[c]
    /\ \E k \in Keys : \E v \in Values :
         ret.value = <<k, v>> /\ v # LogValue

\* ------------------------------------------------------------------ C4
\* C4: an iterator that has returned done has yielded every entry that was
\* live at its creation and stayed live until then.
C4_NoLiveEntrySkipped ==
  \A c \in Iters : dones[c] >= 1 => stayed[c] \subseteq SeqSet(yielded[c])

\* A finished traversal during which an entry was deleted ahead of the
\* iterator and which yielded more entries than stayed live throughout.
C4_Witness ==
  \E c \in Iters :
    /\ dones[c] = 1
    /\ stayed[c] # {}
    /\ gone[c] # {}
    /\ Len(yielded[c]) > Cardinality(stayed[c])

C6_Original ==
  \A c \in Iters :
    (script = 5 /\ Advanced(c) /\ atClear[c].adv = 1) => ret.done

\* C6 as amended: the first advance after the clear() returns done when no key
\* was inserted between the two, and returns the first key inserted since the
\* clear() otherwise; once the iterator has returned done, keys inserted
\* afterwards do not bring it back.
C6_Amended ==
  \A c \in Iters :
    /\ (script = 5 /\ Advanced(c) /\ atClear[c].adv = 1) =>
         /\ atClear[c].n = nEntries => ret.done
         /\ atClear[c].n < nEntries =>
              ~ret.done /\ currentEntry[c] = atClear[c].n + 1
    /\ (script = 5 /\ Advanced(c) /\ dones[c] >= 1) => ret.done

\* Scenario C: the only entry ever yielded is a; the iterator returned done
\* after the clear(), a key was inserted, and it returned done again.
C6_Witness ==
  \E c \in Iters :
    /\ script = 5 /\ Advanced(c)
    /\ dones[c] = 2
    /\ Len(yielded[c]) = 1
    /\ size >= 1

\* ------------------------------------------------------------------ C7
\* C7: an iterator that rested on an entry when clear() was called yields
\* afterwards no entry that existed at the clear(), and yields in insertion
\* order the entries inserted after it that are still owed when it is done.
C7_ContinuesAfterClear ==
  \A c \in Iters :
    (atClear[c].n # undefined /\ atClear[c].len >= 1) =>
      /\ \A i \in (atClear[c].len + 1)..Len(yielded[c]) : yielded[c][i] > atClear[c].n
      /\ Increasing(yielded[c])
      /\ dones[c] >= 1 =>
           {e \in owed[c] : e > atClear[c].n} \subseteq SeqSet(yielded[c])

\* The iterator rested mid-list at the clear(), yielded an entry inserted
\* after it and then returned done.
C7_Witness ==
  \E c \in Iters :
    /\ dones[c] = 1
    /\ atClear[c].n # undefined /\ atClear[c].n >= 2 /\ atClear[c].len >= 1
    /\ Len(yielded[c]) > atClear[c].len

\* ------------------------------------------------------------------ C8
\* C8: an advance of an iterator that has returned done before returns done.
C8_DoneForever ==
  \A c \in Iters : (Advanced(c) /\ dones[c] >= 1) => ret.done

\* The iterator reached done through firstEntry after a clear(), an entry was
\* inserted after that, and the iterator returned done once more.
C8_Witness ==
  \E c \in Iters :
    /\ Advanced(c) /\ dones[c] = 2
    /\ atClear[c].n # undefined /\ atClear[c].len >= 1
    /\ \E e \in Live : e \notin SeqSet(yielded[c])

\* ------------------------------------------------------------------ C9
\* C9: size is the number of keys with has(k), and the number of entries a
\* new iterator yields when advanced to done with no call in between.
C9_SizeIsCount ==
  /\ size = Cardinality({k \in Keys : has(k)})
  /\ size = Len(Traverse(firstEntry))

\* Two keys are present after four insertions.
C9_Witness == size = 2 /\ nEntries = MaxEntries

\* ----------------------------------------------------------------- C10
\* C10: after set calls on distinct keys on a new map, a new iterator yields
\* the selector's view of exactly those (key, value) pairs in call order.
C10_InsertionOrder ==
  LET t == Traverse(firstEntry)
  IN  /\ Len(t) = Len(setLog)
      /\ \A i \in 1..Len(setLog) : \A sel \in Selectors :
           Select(sel, entryKey[t[i]], entryValue[t[i]])
             = Select(sel, setLog[i][1], setLog[i][2])
      /\ \A c \in Iters :
           /\ (Advanced(c) /\ ~ret.done) =>
                /\ Len(yielded[c]) <= Len(setLog)
                /\ ret.value = Select(selector[c], setLog[Len(yielded[c])][1],
                                                   setLog[Len(yielded[c])][2])
           /\ (Advanced(c) /\ ret.done /\ dones[c] = 1) =>
                Len(yielded[c]) = Len(setLog)

\* An entries() iterator has run through three insertions.
C10_Witness ==
  \E c \in Iters :
    /\ Advanced(c) /\ ret.done /\ dones[c] = 1
    /\ selector[c] = "entries"
    /\ Len(setLog) = NumKeys
    /\ Len(yielded[c]) = NumKeys

\* ------------------------------------------------- properties of a call
\* The keys, and the (key, value) pairs, of a sequence of entries.
KeysOf(q)  == [i \in 1..Len(q) |-> entryKey[q[i]]]
PairsOf(q) == [i \in 1..Len(q) |-> <<entryKey[q[i]], entryValue[q[i]]>>]

\* A sequence of entries without entry e.
Without(q, e) == SelectSeq(q, LAMBDA x : x # e)

\* What iterator c returns from now on when it is advanced until done with no
\* other call in between.
Rest(c) == Traverse(currentEntry[c])

\* The entries met by following nextEntry from cur, at most fuel of them.
RECURSIVE Walk(_, _)
Walk(cur, fuel) ==
  IF fuel = 0 \/ nextEntry[cur] = undefined THEN <<>>
  ELSE <<nextEntry[cur]>> \o Walk(nextEntry[cur], fuel - 1)

\* The list from firstEntry, cut off after more hops than there are entries.
Chain == Walk(firstEntry, nEntries + 1)

\* The map's invariants: size counts the keys of this.data; the list from
\* firstEntry holds exactly the entries of this.data, in insertion order, none
\* of them marked skipNext, linked both ways, and lastEntry is its last.
WellFormed ==
  /\ size = Cardinality({k \in Keys : has(k)})
  /\ \A k \in Keys : has(k) => data[k] \in 1..nEntries /\ entryKey[data[k]] = k
  /\ Increasing(Chain)
  /\ SeqSet(Chain) = Live
  /\ \A i \in 1..Len(Chain) :
       /\ ~skipNext[Chain[i]]
       /\ previousEntry[Chain[i]] = IF i = 1 THEN firstEntry ELSE Chain[i - 1]
  /\ lastEntry = IF Chain = <<>> THEN firstEntry ELSE Chain[Len(Chain)]
  /\ ~skipNext[firstEntry]

\* ----------------------------------------------------------------- C11
\* C11: set(k, v2) on a present key keeps has(k), makes get(k) = v2, keeps
\* size, keeps the entries and the keys of a new traversal in their places
\* and keeps the values of the other keys; and after Scenario A entries()
\* gives (a, the value set last for a), (c, the value set for c) and size is 2.
C11_Overwrite ==
  [][/\ \A k \in Keys :
          (last'.op = "set" /\ last'.k = k /\ last'.was # undefined) =>
            /\ has(k)'
            /\ get(k)' = last'.v
            /\ size' = size
            /\ Traverse(firstEntry)' = Traverse(firstEntry)
            /\ KeysOf(Traverse(firstEntry))' = KeysOf(Traverse(firstEntry))
            /\ \A j \in Keys \ {k} : get(j)' = get(j)
     /\ script' = 5 =>
          /\ PairsOf(Traverse(firstEntry))'
               = << <<entryKey[1], stored'[entryKey[1]]>>, <<last'.k, last'.v>> >>
          /\ size' = 2
    ]_vars

\* The key in the middle of three live keys has been given the other value.
C11_Witness ==
  /\ last.op = "set"
  /\ last.was # undefined /\ last.was # last.v
  /\ Len(Traverse(firstEntry)) = 3
  /\ Traverse(firstEntry)[2] = data[last.k]

\* Scenario A has been run to its end.
C11_ScenarioA == script = 5 /\ last.op = "set" /\ size = 2


\* ----------------------------------------------------------------- C12
\* C12: delete(k) of a present key returns true and leaves has(k) false; a
\* new traversal, and the rest of the traversal of every iterator, is what it
\* was without the entry of k; and no advance of any iterator returns a key
\* that was deleted and not set again.
C12_Delete ==
  [][/\ \A k \in Keys :
          (last'.op = "delete" /\ last'.k = k /\ last'.was # undefined) =>
            /\ ret'.value
            /\ ~has(k)'
            /\ Traverse(firstEntry)' = Without(Traverse(firstEntry), data[k])
            /\ \A c \in Iters : Rest(c)' = Without(Rest(c), data[k])
     /\ \A c \in Iters :
          (last'.op = "next" /\ last'.c = c /\ ~ret'.done) =>
            stored'[entryKey'[currentEntry'[c]]] \in Values
    ]_vars

\* One iterator rests on the entry of a key that was deleted and not set
\* again; the other has just gone past that entry's place and yielded a
\* later entry.
C12_Witness ==
  /\ last.op = "next" /\ ~ret.done
  /\ \E t \in 1..nEntries : \E d \in Iters \ {last.c} :
       /\ skipNext[t] /\ stored[entryKey[t]] = wasDeleted
       /\ currentEntry[d] = t
       /\ t < currentEntry[last.c]

\* ----------------------------------------------------------------- C13
\* C13: set(k, v) on an absent key, a key deleted earlier included, makes a
\* new entry that becomes lastEntry: a new traversal is the former one with
\* the new entry of k added at the end, so k comes after every key that was
\* live at the set; the entries removed earlier are left as they were.
C13_Reinsertion ==
  [][\A k \in Keys :
       (last'.op = "set" /\ last'.k = k /\ last'.was = undefined) =>
         /\ data'[k] \notin 0..nEntries
         /\ entryKey'[data'[k]] = k
         /\ lastEntry' = data'[k]
         /\ nextEntry'[data'[k]] = undefined
         /\ Traverse(firstEntry)' = Append(Traverse(firstEntry), data'[k])
         /\ KeysOf(Traverse(firstEntry))' = Append(KeysOf(Traverse(firstEntry)), k)
         /\ \A t \in 1..nEntries : t \notin Live =>
              /\ nextEntry'[t] = nextEntry[t]
              /\ skipNext'[t] = skipNext[t]
    ]_vars

\* Key k was deleted while a key set after it stayed; k has been set again
\* and now comes after that key.
C13_Witness ==
  /\ last.op = "set" /\ last.was = undefined /\ last.again
  /\ \E t \in 1..nEntries : \E m \in Live :
       entryKey[t] = last.k /\ t < m /\ m < data[last.k]
  /\ Traverse(firstEntry)[size] = data[last.k]

\* ----------------------------------------------------------------- C14
\* C14: forEach passes to the action entries that are in the map when passed,
\* as (value, key) of the entry, in insertion order and each once, also when
\* the action calls set and delete; an entry deleted before it was reached
\* is not passed; when forEach returns it has passed every entry that was in
\* the map at its start or inserted since and not deleted before it was
\* reached, none skipped, and the map's invariants hold.
C14_ForEach ==
  /\ Increasing(yielded[iterator])
  /\ gone[iterator] \cap SeqSet(yielded[iterator]) = {}
  /\ pc = "action" /\ Advanced(iterator) =>
       LET e == currentEntry[iterator]
       IN  /\ ~ret.done
           /\ e \in Live
           /\ ret.value = <<entryKey[e], entryValue[e]>>
           /\ yielded[iterator][Len(yielded[iterator])] = e
  /\ pc = "returned" /\ Advanced(iterator) =>
       /\ ret.done
       /\ SeqSet(yielded[iterator]) = owed[iterator]
       /\ stayed[iterator] \subseteq SeqSet(yielded[iterator])
       /\ WellFormed
  /\ pc \in {"loop", "action"} => dones[iterator] = 0

\* forEach has returned; its action deleted an entry after it was passed and
\* another one before it was reached, and a later entry was passed.
C14_Witness ==
  /\ pc = "returned" /\ Advanced(iterator)
  /\ gone[iterator] # {}
  /\ \E i, j \in 1..Len(yielded[iterator]) :
       /\ i < j
       /\ skipNext[yielded[iterator][i]]
       /\ \E g \in gone[iterator] : yielded[iterator][i] < g /\ g < yielded[iterator][j]

\* ----------------------------------------------------------------- C15
\* The loop of MapIterator.next started at cur ends after at most fuel
\* passes that do not break.
RECURSIVE Halts(_, _)
Halts(cur, fuel) ==
  IF cur = undefined \/ ~skipNext[cur] THEN TRUE
  ELSE fuel > 0 /\ Halts(nextEntry[cur], fuel - 1)

\* Where an iterator can rest.
Positions == (0..nEntries) \cup {undefined}

\* C15: wherever an iterator rests, the loop of next ends after at most as
\* many non-breaking passes as there are removed entries, at undefined or at
\* an entry of the map: an entry marked skipNext refers to an older entry
\* (firstEntry included), and firstEntry is never marked.
C15_AdvanceTerminates ==
  /\ \A c \in Iters : currentEntry[c] \in Positions
  /\ ~skipNext[firstEntry]
  /\ \A t \in 1..nEntries : skipNext[t] => nextEntry[t] \in 0..(t - 1)
  /\ \A e \in Positions :
       /\ Halts(e, nEntries - size)
       /\ Navigate(e) = undefined \/ Navigate(e) \in Live

\* An iterator rests on a deleted entry that refers to a cleared entry, which
\* refers to firstEntry, after which an entry was inserted: three passes that
\* do not break.
C15_Witness ==
  \E c \in Iters :
    LET t == currentEntry[c]
    IN  /\ t \in 1..nEntries
        /\ skipNext[t]
        /\ nextEntry[t] # firstEntry
        /\ skipNext[nextEntry[t]]
        /\ nextEntry[nextEntry[t]] = firstEntry
        /\ Navigate(t) \in Live

\* ----------------------------------------------------------------- C16
\* C16: with finitely many insertions, an iterator that keeps being advanced
\* returns done at some time, and a call of forEach returns, whatever calls
\* of delete, clear and set on present keys happen in between.
C16_TraversalEnds ==
  /\ \A c \in Solo : Created(c) ~> (Created(c) /\ currentEntry[c] = undefined)
  /\ (pc = "loop") ~> (pc = "returned")

\* forEach has returned and the iterator is done after all the insertions
\* allowed were made, with one of the entries removed.
C16_Witness ==
  /\ pc = "returned"
  /\ \E c \in Solo : Created(c) /\ currentEntry[c] = undefined
  /\ Created(iterator) /\ currentEntry[iterator] = undefined
  /\ nEntries = MaxLogged
  /\ size = MaxLogged - 1

\* ----------------------------------------------------------------- C17
\* C17: delete(k) of a key that is not present returns false and leaves the
\* map and the iterators as they were: size, this.data, every entry's
\* references and mark, lastEntry, every iterator's place and what it will
\* return.
C17_DeleteAbsent ==
  [][\A k \in Keys :
       (last'.op = "delete" /\ last'.k = k /\ ~has(k)) =>
         /\ ret' = [op |-> "delete", value |-> FALSE]
         /\ UNCHANGED <<mapVars, iterVars>>
         /\ \A c \in Iters : Rest(c)' = Rest(c)
         /\ Traverse(firstEntry)' = Traverse(firstEntry)
    ]_vars

\* delete was called a second time for a key while an iterator rests on the
\* entry the first call removed, and returned false.
C17_Witness ==
  /\ last.op = "delete" /\ last.was = undefined
  /\ ret = [op |-> "delete", value |-> FALSE]
  /\ stored[last.k] = wasDeleted
  /\ size >= 1
  /\ \E c \in Iters : /\ currentEntry[c] \in 1..nEntries
                      /\ entryKey[currentEntry[c]] = last.k
                      /\ skipNext[currentEntry[c]]

\* ----------------------------------------------------------------- C18
\* C18: keys(), values() and entries() give an iterator at firstEntry with
\* their selector, which will return the whole of a new traversal; creating
\* or advancing an iterator leaves the map and every other iterator, and
\* what that one will return, as they were; an advance returns the first of
\* what the iterator had left and leaves it the rest.
C18_IndependentIterators ==
  [][\A c \in Iters :
       /\ (last'.op \in Selectors /\ last'.c = c) =>
            /\ currentEntry'[c] = firstEntry
            /\ selector'[c] = last'.op
            /\ Rest(c)' = Traverse(firstEntry)
            /\ UNCHANGED mapVars
            /\ \A d \in Iters \ {c} :
                 /\ currentEntry'[d] = currentEntry[d]
                 /\ selector'[d] = selector[d]
                 /\ Rest(d)' = Rest(d)
       /\ (last'.op = "next" /\ last'.c = c) =>
            /\ UNCHANGED <<mapVars, selector>>
            /\ \A d \in Iters \ {c} :
                 /\ currentEntry'[d] = currentEntry[d]
                 /\ Rest(d)' = Rest(d)
            /\ IF Rest(c) = <<>>
                 THEN ret'.done /\ Rest(c)' = <<>>
                 ELSE /\ ~ret'.done
                      /\ currentEntry'[c] = Head(Rest(c))
                      /\ Rest(c)' = Tail(Rest(c))
                      /\ ret'.value = Select(selector[c], entryKey[Head(Rest(c))],
                                             entryValue[Head(Rest(c))])
    ]_vars

\* Two iterators with different selectors over a map of three entries: one
\* has returned them all, the other has just returned the second.
C18_Witness ==
  /\ last.op = "next" /\ ~ret.done
  /\ size = 3
  /\ \E d \in Iters \ {last.c} :
       /\ Created(d) /\ selector[d] # selector[last.c]
       /\ currentEntry[d] = Traverse(firstEntry)[3]
       /\ currentEntry[last.c] = Traverse(firstEntry)[2]

\* ----------------------------------------------------------------- C19
\* C19: get(k) returns the value of the last set(k, .) when the key was set
\* and not removed since, which is when has(k) returns true, and undefined
\* otherwise; get and has leave the map and the iterators, and what these
\* will return, as they were.
C19_GetHas ==
  [][\A k \in Keys :
       /\ (last'.op = "get" /\ last'.k = k) =>
            /\ ret'.value = IF stored[k] \in Values THEN stored[k] ELSE undefined
            /\ has(k) <=> ret'.value # undefined
       /\ (last'.op = "has" /\ last'.k = k) =>
            /\ ret'.value = (stored[k] \in Values)
            /\ ret'.value = has(k)
       /\ (last'.op \in {"get", "has"}) =>
            /\ UNCHANGED <<mapVars, iterVars>>
            /\ \A c \in Iters : Rest(c)' = Rest(c)
            /\ Traverse(firstEntry)' = Traverse(firstEntry)
    ]_vars

\* get has returned the value of a key that is not the one set last and
\* differs from that one's, while an iterator is in the middle of the list.
C19_Witness ==
  /\ last.op = "get"
  /\ ret.value \in Values
  /\ data[last.k] < nEntries
  /\ nEntries \in Live
  /\ ret.value # entryValue[nEntries]
  /\ \E c \in Iters : currentEntry[c] \in Live

\* ----------------------------------------------------------------- C20
\* The entries that were removed from the map.
Tombstones == (1..nEntries) \ Live

\* C20: in every state the list from firstEntry is exactly the entries of
\* this.data in insertion order, ends at undefined, holds no entry marked
\* skipNext and is what a new iterator returns; a removed entry is marked,
\* is not in this.data and is not in the list.
C20_ChainIsIndex ==
  /\ Increasing(Chain)
  /\ SeqSet(Chain) = Live
  /\ Len(Chain) = Cardinality({k \in Keys : has(k)})
  /\ nextEntry[IF Chain = <<>> THEN firstEntry ELSE Chain[Len(Chain)]] = undefined
  /\ \A i \in 1..Len(Chain) : ~skipNext[Chain[i]] /\ data[entryKey[Chain[i]]] = Chain[i]
  /\ ~skipNext[firstEntry]
  /\ Chain = Traverse(firstEntry)
  /\ \A t \in Tombstones :
       /\ skipNext[t]
       /\ t \notin SeqSet(Chain)
       /\ \A k \in Keys : data[k] # t

\* Two entries are in the list, one removed by delete lies between them and
\* refers to the first, one removed before refers to firstEntry, and an
\* iterator rests on a removed entry.
C20_Witness ==
  /\ Len(Chain) = 2
  /\ \E t \in Tombstones : Chain[1] < t /\ t < Chain[2] /\ nextEntry[t] = Chain[1]
  /\ \E t \in Tombstones : t < Chain[1] /\ nextEntry[t] = firstEntry
  /\ \E c \in Iters : currentEntry[c] \in Tombstones

\* ----------------------------------------------------------------- C21
\* C21: in every state lastEntry.nextEntry is undefined; lastEntry is
\* firstEntry exactly when the map is empty, and otherwise it is the entry of
\* this.data inserted last: the last one of the list from firstEntry.
C21_LastEntry ==
  /\ nextEntry[lastEntry] = undefined
  /\ lastEntry = firstEntry <=> size = 0
  /\ lastEntry = firstEntry <=> Live = {}
  /\ lastEntry # firstEntry =>
       /\ lastEntry \in Live
       /\ \A e \in Live : e <= lastEntry
       /\ lastEntry = Chain[Len(Chain)]

\* The two entries inserted last were deleted one after the other, so that
\* lastEntry moved back twice and rests on an older entry of this.data.
C21_Witness ==
  /\ nEntries >= 3
  /\ lastEntry = nEntries - 2
  /\ lastEntry \in Live
  /\ nextEntry[nEntries] = nEntries - 1
  /\ nextEntry[nEntries - 1] = lastEntry

\* ----------------------------------------------------------------- C22
\* C22: delete(k) of a present key returns true, takes one from size and
\* takes k out of this.data; the entry before the deleted one gets its
\* nextEntry and the entry after it gets that one as previousEntry; lastEntry
\* moves to the entry before when the deleted entry was lastEntry; the
\* deleted entry is left with previousEntry undefined, nextEntry the entry
\* that was before it and skipNext true; every other entry keeps its key,
\* value, skipNext and links, and no iterator is touched.
C22_DeletePresent ==
  [][\A k \in Keys :
       (last'.op = "delete" /\ last'.k = k /\ has(k)) =>
         LET entry == data[k]
             before == previousEntry[entry]
             after == nextEntry[entry]
         IN  /\ ret' = [op |-> "delete", value |-> TRUE]
             /\ size' = size - 1
             /\ ~has(k)'
             /\ \A j \in Keys \ {k} : data'[j] = data[j]
             /\ before # undefined
             /\ nextEntry'[before] = after
             /\ after # undefined => previousEntry'[after] = before
             /\ lastEntry' = IF lastEntry = entry THEN before ELSE lastEntry
             /\ previousEntry'[entry] = undefined
             /\ nextEntry'[entry] = before
             /\ skipNext'[entry] = TRUE
             /\ \A e \in Entries \ {entry} : skipNext'[e] = skipNext[e]
             /\ \A e \in Entries \ {entry, before} : nextEntry'[e] = nextEntry[e]
             /\ \A e \in Entries \ {entry, after} :
                  previousEntry'[e] = previousEntry[e]
             /\ UNCHANGED <<nEntries, entryKey, entryValue, iterVars>>
    ]_vars

\* Both cases have happened: an entry in the middle of the list was deleted,
\* and then lastEntry itself, whose place the entry before it took.
C22_Witness ==
  /\ last.op = "delete" /\ last.was # undefined /\ ret.value
  /\ lastEntry \in Live /\ lastEntry = nEntries - 2
  /\ skipNext[nEntries - 1] /\ nextEntry[nEntries - 1] = lastEntry
  /\ skipNext[nEntries] /\ nextEntry[nEntries] = lastEntry

\* ----------------------------------------------------------------- C23
\* C23: after clear() size is 0, has(k) is false for every key,
\* firstEntry.nextEntry is undefined and lastEntry is firstEntry; every entry
\* that was in this.data at the call has previousEntry undefined, nextEntry
\* firstEntry and skipNext true, while the entries removed earlier are left as
\* they were; an iterator created now returns done on its first next(), and
\* so does the next call of every iterator that exists already.
C23_Clear ==
  [][last'.op = "clear" =>
       /\ size' = 0
       /\ \A k \in Keys : ~has(k)'
       /\ nextEntry'[firstEntry] = undefined
       /\ lastEntry' = firstEntry
       /\ \A e \in Live :
            /\ previousEntry'[e] = undefined
            /\ nextEntry'[e] = firstEntry
            /\ skipNext'[e] = TRUE
       /\ \A e \in (1..MaxEntries) \ Live :
            /\ previousEntry'[e] = previousEntry[e]
            /\ nextEntry'[e] = nextEntry[e]
            /\ skipNext'[e] = skipNext[e]
       /\ Navigate(firstEntry)' = undefined
       /\ \A c \in Iters : selector[c] # "none" => Navigate(currentEntry[c])' = undefined
       /\ UNCHANGED <<nEntries, entryKey, entryValue, iterVars, skipNext[firstEntry]>>
    ]_vars

\* clear() was called on a map of two entries with an entry deleted between
\* them, while the iterator rested on the deleted one.
C23_Witness ==
  /\ last.op = "clear" /\ last.was = 2
  /\ nEntries = 3
  /\ nextEntry[2] = 1 /\ skipNext[2]
  /\ nextEntry[1] = firstEntry /\ skipNext[1]
  /\ nextEntry[3] = firstEntry /\ skipNext[3]
  /\ \E c \in Iters : currentEntry[c] = 2

\* ----------------------------------------------------------------- C24
\* C24: an iterator takes the value of an entry when next() returns the
\* entry: what next() returns is made of the value last set for the key. A
\* set(k, v) of a present key moves no iterator and leaves what every
\* iterator will return the same entries in the same order, with the same
\* keys, and with v as the value of k where k is still to come.
C24_ValueAtYield ==
  [][/\ \A k \in Keys :
          (last'.op = "set" /\ last'.k = k /\ has(k)) =>
            /\ UNCHANGED iterVars
            /\ \A c \in Iters :
                 /\ Rest(c)' = Rest(c)
                 /\ KeysOf(Rest(c))' = KeysOf(Rest(c))
                 /\ \A i \in 1..Len(Rest(c)) :
                      PairsOf(Rest(c))'[i] =
                        IF Rest(c)[i] = data[k] THEN <<k, last'.v>>
                                                ELSE PairsOf(Rest(c))[i]
     /\ \A c \in Iters :
          (last'.op = "next" /\ last'.c = c /\ ~ret'.done) =>
            ret'.value = Select(selector[c], entryKey[currentEntry'[c]],
                                stored[entryKey[currentEntry'[c]]])
    ]_vars

\* An iterator of values() or entries() has returned an entry and rests on
\* it, and a key it has still to reach has just been given the other value.
C24_Witness ==
  /\ last.op = "set"
  /\ last.was \in Values /\ last.was # last.v
  /\ \E c \in Iters :
       /\ selector[c] \in {"values", "entries"}
       /\ currentEntry[c] \in Live
       /\ currentEntry[c] < data[last.k]
       /\ data[last.k] < lastEntry

\* ----------------------------------------------------------------- C25
\* C25: the entries one iterator has returned are all different; two of them
\* have the same key only when the one returned first has since been removed
\* from this.data (by delete or clear, which marked it skipNext) and the one
\* returned later was created by a later set.
C25_NoRepeat ==
  \A c \in Iters :
    \A i, j \in 1..Len(yielded[c]) :
      i < j =>
        /\ yielded[c][i] # yielded[c][j]
        /\ entryKey[yielded[c][i]] = entryKey[yielded[c][j]] =>
             /\ yielded[c][i] \notin Live
             /\ skipNext[yielded[c][i]]
             /\ yielded[c][i] < yielded[c][j]

\* An iterator returned a key, the key was deleted and set again, and the
\* iterator returned it a second time, from the new entry, after another key.
C25_Witness ==
  \E c \in Iters :
    /\ Len(yielded[c]) = 3
    /\ entryKey[yielded[c][1]] = entryKey[yielded[c][3]]
    /\ entryKey[yielded[c][2]] # entryKey[yielded[c][1]]
    /\ dones[c] = 0

\* ----------------------------------------------------------------- C27
\* C27: the entries of this.data form a doubly linked list: the
\* previousEntry of every entry of this.data is defined and is firstEntry or
\* another entry of this.data, never a removed entry, and its nextEntry is
\* the entry itself; the nextEntry of an entry of this.data is undefined or
\* an entry of this.data whose previousEntry is that entry. So
\* "entry.previousEntry!" in delete() is never undefined.
C27_DoublyLinked ==
  /\ \A e \in Live :
       /\ previousEntry[e] # undefined
       /\ previousEntry[e] \in {firstEntry} \cup Live
       /\ ~skipNext[previousEntry[e]]
       /\ nextEntry[previousEntry[e]] = e
       /\ nextEntry[e] # undefined =>
            /\ nextEntry[e] \in Live
            /\ previousEntry[nextEntry[e]] = e
  /\ previousEntry[firstEntry] = undefined
  /\ nextEntry[firstEntry] # undefined =>
       /\ nextEntry[firstEntry] \in Live
       /\ previousEntry[nextEntry[firstEntry]] = firstEntry

\* A delete has just returned true, and every entry created before some
\* entry of this.data has been removed: that entry has firstEntry as
\* previousEntry, and a newer entry of this.data follows it.
C27_Witness ==
  /\ ret = [op |-> "delete", value |-> TRUE]
  /\ \E e \in Live :
       /\ previousEntry[e] = firstEntry
       /\ e >= 3
       /\ nextEntry[e] \in Live
       /\ \A t \in 1..(e - 1) : skipNext[t]

\* ----------------------------------------------------------------- C28
\* C28: an entry marked skipNext is never changed again: no call changes its
\* nextEntry, previousEntry, skipNext or key. Its nextEntry is firstEntry or
\* an entry created before it, and firstEntry is never marked skipNext.
C28_Frozen ==
  [][/\ \A t \in Entries :
          skipNext[t] =>
            /\ nextEntry'[t] = nextEntry[t]
            /\ previousEntry'[t] = previousEntry[t]
            /\ skipNext'[t] = TRUE
            /\ entryKey'[t] = entryKey[t]
     /\ \A t \in Entries :
          skipNext'[t] =>
            /\ t # firstEntry
            /\ nextEntry'[t] \in 0..(t - 1)
            /\ previousEntry'[t] = undefined
    ]_vars

\* After the last entry and then the one before it were deleted, set() added
\* an entry behind the entry that was left, and both were removed in turn:
\* the two entries deleted first still refer to the entries before them.
C28_Witness ==
  /\ nEntries = MaxEntries
  /\ size = 0
  /\ nextEntry[3] = 2 /\ nextEntry[2] = 1
  /\ nextEntry[1] = firstEntry /\ nextEntry[4] = firstEntry
  /\ \A t \in 1..nEntries : skipNext[t]

\* ----------------------------------------------------------------- C26
\* C26: given the same calls of set, delete, clear, get, has, size, keys,
\* values, entries and next, the map of shimMap() and the built-in Map return
\* the same result at every call, and hold the same number of entries, the
\* same keys and the same values after it.
C26_SameResults ==
  /\ ret = native.ret
  /\ size = NativeCount(native)
  /\ \A k \in Keys :
       /\ has(k) <=> NativeIndex(native, k) # 0
       /\ has(k) => get(k) = native.log[NativeIndex(native, k)].value

\* Two entries were deleted, the second before the first, and a third was
\* set: one iterator still rests on the second, and the other has just
\* returned the third, in both maps.
C26_Witness ==
  /\ ret.op = "next" /\ ~ret.done /\ native.ret = ret
  /\ skipNext[1] /\ skipNext[2] /\ nextEntry[2] = 1
  /\ native.log[1].dead /\ native.log[2].dead
  /\ \E c \in Iters : \E d \in Iters \ {c} :
       /\ ret.it = c
       /\ currentEntry[c] = 3 /\ native.pos[c] = 3
       /\ currentEntry[d] = 2 /\ native.pos[d] = 2

====
